---- MODULE Spec2Model ----
(***************************************************************************)
(* Model of compo-kit's scaffolding CLI: the directory reconciler          *)
(* (canSkipEmptying, emptyDir), the template renderer (renderTemplate)     *)
(* and the orchestration (init), over an explicit model of the file system *)
(* the node:fs calls act on.                                               *)
(***************************************************************************)
EXTENDS Integers, Sequences, FiniteSets, TLC

VARIABLES
  fs,     \* the file system: absolute path (sequence of names) -> node
  fs0,    \* the file system when the operation started (history)
  pc,     \* position of the running operation
  err,    \* the error that was thrown ("none" when none)
  stack,  \* the call stack of the recursive walk in progress
  log,    \* the file-system mutations and calls made so far (history)
  args,   \* the inputs of the operation
  res     \* the value the operation returned

vars == <<fs, fs0, pc, err, stack, log, args, res>>

----------------------------------------------------------------------------
(* Bounds of the model. *)

\* deepest entry below a generated tree's root
MaxDepth == 2
\* most entries chosen freely in a generated tree (ancestors are added)
MaxEntries == 2

----------------------------------------------------------------------------
(* The file system and node:fs. *)

NoData == [kind |-> "none", raw |-> "", doc |-> <<>>]
Raw(s) == [kind |-> "raw", raw |-> s, doc |-> <<>>]
DirNode == [type |-> "dir", data |-> NoData]
FileNode(d) == [type |-> "file", data |-> d]

IsPrefix(p, q) == Len(p) <= Len(q) /\ SubSeq(q, 1, Len(p)) = p
IsProperPrefix(p, q) == Len(p) < Len(q) /\ IsPrefix(p, q)
Parent(p) == SubSeq(p, 1, Len(p) - 1)
\* path.basename
basename(p) == IF p = <<>> THEN "" ELSE p[Len(p)]
\* path.resolve(dir, name) for a single name
resolve(p, name) == Append(p, name)

Put(f, p, node) == [q \in DOMAIN f \cup {p} |-> IF q = p THEN node ELSE f[q]]
Del(f, p) == [q \in DOMAIN f \ {p} |-> f[q]]

Ok(f) == [fs |-> f, err |-> "none"]
Throw(f, e) == [fs |-> f, err |-> e]

existsSync(f, p) == p \in DOMAIN f
IsDir(f, p) == p \in DOMAIN f /\ f[p].type = "dir"
IsFile(f, p) == p \in DOMAIN f /\ f[p].type = "file"
\* the names readdirSync lists (of an existing directory)
Entries(f, p) == {q[Len(q)] : q \in {r \in DOMAIN f : Len(r) = Len(p) + 1 /\ IsPrefix(p, r)}}
readdirErr(f, p) ==
  IF ~existsSync(f, p) THEN "ENOENT" ELSE IF ~IsDir(f, p) THEN "ENOTDIR" ELSE "none"

rmdirSync(f, p) ==
  IF ~existsSync(f, p) THEN Throw(f, "ENOENT")
  ELSE IF ~IsDir(f, p) THEN Throw(f, "ENOTDIR")
  ELSE IF Entries(f, p) # {} THEN Throw(f, "ENOTEMPTY")
  ELSE Ok(Del(f, p))

unlinkSync(f, p) ==
  IF ~existsSync(f, p) THEN Throw(f, "ENOENT")
  ELSE IF IsDir(f, p) THEN Throw(f, "EISDIR")
  ELSE Ok(Del(f, p))

\* fs.mkdirSync(p): the parent must be a directory and p must not exist
mkdirSync(f, p) ==
  IF existsSync(f, p) THEN Throw(f, "EEXIST")
  ELSE IF ~existsSync(f, Parent(p)) THEN Throw(f, "ENOENT")
  ELSE IF ~IsDir(f, Parent(p)) THEN Throw(f, "ENOTDIR")
  ELSE Ok(Put(f, p, DirNode))

\* fs.mkdirSync(p, { recursive: true }): creates the missing ancestors too; an
\* existing directory is left alone; a file on the way is an error
RECURSIVE MkdirP(_, _, _)
MkdirP(f, p, n) ==
  IF n > Len(p) THEN f
  ELSE LET q == SubSeq(p, 1, n) IN MkdirP(IF existsSync(f, q) THEN f ELSE Put(f, q, DirNode), p, n + 1)
mkdirSyncRecursive(f, p) ==
  IF \E n \in 1..Len(p) : IsFile(f, SubSeq(p, 1, n))
  THEN Throw(f, IF IsFile(f, p) THEN "EEXIST" ELSE "ENOTDIR")
  ELSE Ok(MkdirP(f, p, 1))

writeFileSync(f, p, d) ==
  IF ~existsSync(f, Parent(p)) THEN Throw(f, "ENOENT")
  ELSE IF ~IsDir(f, Parent(p)) THEN Throw(f, "ENOTDIR")
  ELSE IF IsDir(f, p) THEN Throw(f, "EISDIR")
  ELSE Ok(Put(f, p, FileNode(d)))

----------------------------------------------------------------------------
(* The trees the operations are run on. *)

RelPaths(names, d) == UNION {[1..n -> names] : n \in 0..d}

RECURSIVE SubsetsUpTo(_, _)
SubsetsUpTo(S, k) ==
  IF k = 0 THEN {{}}
  ELSE LET r == SubsetsUpTo(S, k - 1) IN r \cup {x \cup {e} : x \in r, e \in S}

Ancestors(p) == {SubSeq(p, 1, n) : n \in 0..Len(p)}

\* the tree below root whose chosen entries are L, of kinds K; every ancestor
\* of a chosen entry is a directory
MkTree(root, L, K) ==
  LET abs(l) == root \o l
      P == UNION {Ancestors(abs(l)) : l \in L}
  IN [p \in P |->
        IF \E l \in L : IsProperPrefix(p, abs(l)) THEN DirNode
        ELSE LET l == CHOOSE l \in L : abs(l) = p IN K[l]]

\* two file systems over disjoint trees, as one
Overlay(f, g) == [p \in DOMAIN f \cup DOMAIN g |-> IF p \in DOMAIN g THEN g[p] ELSE f[p]]

RootFs == [p \in {<<>>} |-> DirNode]

\* C: name -> the contents a file of that name may have
Kinds(root, l, C) == {DirNode} \cup {FileNode(c) : c \in C[basename(root \o l)]}

\* every tree below root with at most k chosen entries among `paths`, each a
\* directory or a file with one of the contents C gives for its name; the
\* empty choice is no tree at all (root is missing)
TreesOver(root, paths, C, k) ==
  UNION {{MkTree(root, L, K) : K \in {K \in [L -> {DirNode} \cup UNION {Kinds(root, l, C) : l \in L}] :
                                        \A l \in L : K[l] \in Kinds(root, l, C)}} :
           L \in SubsetsUpTo(paths, k)}

\* the same, the entries being any path of `names` no deeper than d
Trees(root, names, C, d, k) == TreesOver(root, RelPaths(names, d), C, k)

\* the directories of `dirs` and the entries of `names` in each of them
PathsIn(dirs, names) == dirs \cup {Append(d, n) : d \in dirs, n \in names}

----------------------------------------------------------------------------
(* canSkipEmptying, src/cli/index.ts *)

Returned(v) == [val |-> v, err |-> "none"]
Raised(e) == [val |-> FALSE, err |-> e]

\* any single entry passes for .git
canSkipEmptyingAnySingleEntry(f, dir) ==
  IF ~existsSync(f, dir) THEN Returned(TRUE)
  ELSE IF readdirErr(f, dir) # "none" THEN Raised(readdirErr(f, dir))
  ELSE LET files == Entries(f, dir) IN
    IF Cardinality(files) = 0 THEN Returned(TRUE)
    ELSE IF Cardinality(files) = 1 THEN Returned(TRUE)
    ELSE Returned(FALSE)

canSkipEmptying(f, dir) ==
  IF ~existsSync(f, dir) THEN Returned(TRUE)
  ELSE IF readdirErr(f, dir) # "none" THEN Raised(readdirErr(f, dir))
  ELSE LET files == Entries(f, dir) IN
    IF Cardinality(files) = 0 THEN Returned(TRUE)
    ELSE IF Cardinality(files) = 1 /\ files = {".git"} THEN Returned(TRUE)
    ELSE Returned(FALSE)

OutRoot == <<"out">>
ReconcilerNames == {"a", ".git"}
ReconcilerContents == [name \in ReconcilerNames \cup {"out"} |-> {Raw("x")}]
ReconcilerFs(d, k) ==
  {Overlay(RootFs, t) : t \in Trees(OutRoot, ReconcilerNames, ReconcilerContents, d, k)}

InitSkip ==
  /\ fs \in ReconcilerFs(MaxDepth, MaxEntries)
  /\ fs0 = fs
  /\ pc = "start"
  /\ err = "none"
  /\ stack = <<>>
  /\ log = <<>>
  /\ args \in {[dir |-> d, ret |-> "done"] : d \in {OutRoot, OutRoot \o <<"a">>}}
  /\ res = Returned(FALSE)

CanSkipEmptyingCall ==
  /\ pc = "start"
  /\ res' = canSkipEmptying(fs, args.dir)
  /\ pc' = "done"
  /\ UNCHANGED <<fs, fs0, err, stack, log, args>>

NextSkip == CanSkipEmptyingCall

SpecSkip == InitSkip /\ [][NextSkip]_vars

----------------------------------------------------------------------------
(* emptyDir, src/cli/index.ts, and the walk of ./utils/directoryTraverse *)

Frame(f, dir) == [dir |-> dir, todo |-> Entries(f, dir)]
LogOp(op, f, p) == [op |-> op, path |-> p, below |-> {q \in DOMAIN f : IsProperPrefix(p, q)}]

\* the file callback names unlinkSync and does not call it
emptyDirFileCallbackNotCalled(f, file) == Ok(f)

\* (dir) => fs.rmdirSync(dir)
emptyDirDirCallback(f, dir) == rmdirSync(f, dir)
\* (file) => fs.unlinkSync(file)
emptyDirFileCallback(f, file) == unlinkSync(f, file)

\* the walk has visited every entry of the frame's directory
walkFinished(frame) == frame.todo = {}

\* postOrderDirectoryTraverse(dir, ...) is entered: dir is listed
postOrderDirectoryTraverse(f, dir) ==
  IF readdirErr(f, dir) # "none"
  THEN [pc |-> "threw", err |-> readdirErr(f, dir), stack |-> <<>>]
  ELSE [pc |-> "walk", err |-> "none", stack |-> <<Frame(f, dir)>>]

\* the walk is started without the existsSync check
emptyDirUnguarded(f, dir) == postOrderDirectoryTraverse(f, dir)

emptyDir(f, dir) ==
  IF ~existsSync(f, dir)
  THEN [pc |-> "return", err |-> "none", stack |-> <<>>]
  ELSE postOrderDirectoryTraverse(f, dir)

Top == stack[Len(stack)]
SetTop(frame) == [stack EXCEPT ![Len(stack)] = frame]

\* the walk's loop reaches a subdirectory: recurse into it
WalkEnter ==
  /\ pc = "walk"
  /\ \E name \in Top.todo :
       LET child == resolve(Top.dir, name) IN
       /\ IsDir(fs, child)
       /\ stack' = Append(SetTop([Top EXCEPT !.todo = @ \ {name}]), Frame(fs, child))
  /\ UNCHANGED <<fs, fs0, pc, err, log, args, res>>

\* the walk's loop reaches a file: fileCallback
WalkFile ==
  /\ pc = "walk"
  /\ \E name \in Top.todo :
       LET child == resolve(Top.dir, name)
           r == emptyDirFileCallback(fs, child) IN
       /\ ~IsDir(fs, child)
       /\ stack' = SetTop([Top EXCEPT !.todo = @ \ {name}])
       /\ fs' = r.fs
       /\ err' = r.err
       /\ pc' = IF r.err = "none" THEN "walk" ELSE "threw"
       /\ log' = Append(log, LogOp("unlink", fs, child))
  /\ UNCHANGED <<fs0, args, res>>

\* the recursive call on a subdirectory returns: dirCallback on it
WalkLeave ==
  /\ pc = "walk"
  /\ Len(stack) > 1
  /\ walkFinished(Top)
  /\ LET r == emptyDirDirCallback(fs, Top.dir) IN
       /\ fs' = r.fs
       /\ err' = r.err
       /\ pc' = IF r.err = "none" THEN "walk" ELSE "threw"
       /\ log' = Append(log, LogOp("rmdir", fs, Top.dir))
  /\ stack' = SubSeq(stack, 1, Len(stack) - 1)
  /\ UNCHANGED <<fs0, args, res>>

\* the outermost call returns, and with it emptyDir
WalkReturn ==
  /\ pc = "walk"
  /\ Len(stack) = 1
  /\ walkFinished(Top)
  /\ stack' = <<>>
  /\ pc' = args.ret
  /\ UNCHANGED <<fs, fs0, err, log, args, res>>

InitEmpty ==
  /\ fs \in ReconcilerFs(MaxDepth, MaxEntries)
  /\ fs0 = fs
  /\ pc = "start"
  /\ err = "none"
  /\ stack = <<>>
  /\ log = <<>>
  /\ args = [dir |-> OutRoot, ret |-> "done"]
  /\ res = Returned(FALSE)

EmptyDirCall ==
  /\ pc = "start"
  /\ LET r == emptyDir(fs, args.dir) IN
       /\ pc' = IF r.pc = "return" THEN args.ret ELSE r.pc
       /\ err' = r.err
       /\ stack' = r.stack
  /\ UNCHANGED <<fs, fs0, log, args, res>>

NextEmpty == EmptyDirCall \/ WalkEnter \/ WalkFile \/ WalkLeave \/ WalkReturn

SpecEmpty == InitEmpty /\ [][NextEmpty]_vars

----------------------------------------------------------------------------
(* renderTemplate, src/cli/utils/renderTemplate.ts *)

\* a JSON document, as its leaves: key path -> scalar
Json(doc) == [kind |-> "json", raw |-> "", doc |-> doc]
DocTemplate == (<<"version">> :> "1.0.0") @@ (<<"deps", "a">> :> "1")
DocTemplateClash == (<<"name">> :> "t") @@ (<<"deps", "b">> :> "9")
DocDest == (<<"name">> :> "x") @@ (<<"deps", "b">> :> "2")

\* most entries the destination holds before rendering
MaxDestEntries == 1

TemplateRoots == {<<"tpl">>, <<"node_modules">>}
\* the template's directories and the names of the entries in them
TemplateDirs == {<<>>, <<"sub">>, <<"node_modules">>}
TemplateNames == {"_a", "package.json", "node_modules"}
TemplateContents ==
  [name \in TemplateNames \cup {"tpl", "sub"} |->
     IF name = "package.json" THEN {Json(DocTemplate), Json(DocTemplateClash)} ELSE {Raw("x")}]
\* what the destination may hold before rendering
DestDirs == {<<>>, <<"sub">>}
DestNames == {".a", "package.json", "node_modules"}
DestContents ==
  [name \in DestNames \cup {"out", "sub"} |->
     IF name = "package.json" THEN {Json(DocDest)} ELSE {Raw("y")}]

RenderFs(k, kd) ==
  {Overlay(Overlay(RootFs, t), d) :
     t \in UNION {TreesOver(r, PathsIn(TemplateDirs, TemplateNames), TemplateContents, k) :
                    r \in TemplateRoots},
     d \in TreesOver(OutRoot, PathsIn(DestDirs, DestNames), DestContents, kd)}

Call(f, e, enter) == [fs |-> f, err |-> e, enter |-> enter]

\* a plain copy over whatever the destination holds
renderFileCopied(f, src, dest) ==
  LET r == writeFileSync(f, dest, f[src].data) IN Call(r.fs, r.err, FALSE)

\* what renderTemplate does with a src that is not a directory: the function
\* ends after the directory branch
renderFile(f, src, dest) == Call(f, "none", FALSE)

\* one call of renderTemplate(src, dest), up to its loop over the entries of
\* src: `enter` says whether the loop is entered
renderTemplate(f, src, dest) ==
  IF ~existsSync(f, src) THEN Call(f, "ENOENT", FALSE)
  ELSE IF IsDir(f, src) THEN
    IF basename(src) = "node_modules" THEN Call(f, "none", FALSE)
    ELSE LET r == mkdirSyncRecursive(f, dest) IN Call(r.fs, r.err, r.err = "none")
  ELSE renderFile(f, src, dest)

RenderFrame(f, src, dest) == [src |-> src, dest |-> dest, todo |-> Entries(f, src)]

InitRender ==
  /\ fs \in RenderFs(MaxEntries, MaxDestEntries)
  /\ fs0 = fs
  /\ pc = "start"
  /\ err = "none"
  /\ stack = <<>>
  /\ log = <<>>
  /\ args \in {[src |-> r, dest |-> OutRoot] : r \in TemplateRoots}
  /\ args.src \in DOMAIN fs \/ DOMAIN fs \subseteq {<<>>} \cup {q \in DOMAIN fs : IsPrefix(OutRoot, q)}
  /\ res = Returned(FALSE)

\* renderTemplate(src, dest) is called
RenderCall ==
  /\ pc = "start"
  /\ LET r == renderTemplate(fs, args.src, args.dest) IN
       /\ fs' = r.fs
       /\ err' = r.err
       /\ stack' = IF r.enter THEN <<RenderFrame(r.fs, args.src, args.dest)>> ELSE <<>>
       /\ pc' = IF r.err # "none" THEN "threw" ELSE IF r.enter THEN "render" ELSE "done"
  /\ UNCHANGED <<fs0, log, args, res>>

\* the loop reaches an entry of src: the recursive call on it
RenderEntry ==
  /\ pc = "render"
  /\ \E file \in Top.todo :
       LET src == resolve(Top.src, file)
           dest == resolve(Top.dest, file)
           r == renderTemplate(fs, src, dest)
           rest == SetTop([Top EXCEPT !.todo = @ \ {file}]) IN
       /\ fs' = r.fs
       /\ err' = r.err
       /\ stack' = IF r.enter THEN Append(rest, RenderFrame(r.fs, src, dest)) ELSE rest
       /\ pc' = IF r.err # "none" THEN "threw" ELSE "render"
  /\ UNCHANGED <<fs0, log, args, res>>

\* the loop of a call is over: the call returns
RenderReturn ==
  /\ pc = "render"
  /\ Top.todo = {}
  /\ stack' = SubSeq(stack, 1, Len(stack) - 1)
  /\ pc' = IF Len(stack) = 1 THEN "done" ELSE "render"
  /\ UNCHANGED <<fs, fs0, err, log, args, res>>

NextRender == RenderCall \/ RenderEntry \/ RenderReturn

SpecRender == InitRender /\ [][NextRender]_vars

----------------------------------------------------------------------------
(* init, src/cli/index.ts *)

\* process.cwd()
Cwd == <<"w">>
\* the strings a target directory is given as: a relative name, an absolute
\* path, and the default project name
TargetStrings == {"p", "/p", "compo-kit-project"}
IsAbsolute(t) == t = "/p"
Segments(t) == IF t = "/p" THEN <<"p">> ELSE <<t>>
\* the path node:fs acts on when handed the string t
Resolve(t) == IF IsAbsolute(t) THEN Segments(t) ELSE Cwd \o Segments(t)
\* path.join(cwd, t): the segments of t appended to cwd, absolute or not
pathJoin(cwd, t) == cwd \o Segments(t)

\* the regular expression's verdict on the strings of the model: '/' is
\* allowed only after a leading @scope
isValidPackageName(projectName) == projectName \in {"p", "compo-kit-project", "-p", "my-pkg"}
\* trim, lower-case, whitespace to '-', a leading '.' or '_' dropped, every
\* run of other characters to '-'
toValidPackageName(projectName) == IF projectName = "/p" THEN "-p" ELSE projectName

\* JSON.stringify(pkg, null, 2) of { name, version: '0.0.0' }
Stringify(name) == Json((<<"name">> :> name) @@ (<<"version">> :> "0.0.0"))

InitNames == {".git", "package.json"}
InitContents ==
  [name \in InitNames \cup {"p"} |-> IF name = "package.json" THEN {Json(DocDest)} ELSE {Raw("x")}]
\* what lies at the absolute path /p
AbsoluteFs ==
  { <<>> :> DirNode,
    <<"p">> :> DirNode,
    <<"p">> :> FileNode(Raw("x")),
    (<<"p">> :> DirNode) @@ (<<"p", "a">> :> FileNode(Raw("x"))) }
InitFs(d, k) ==
  {Overlay(Overlay(Overlay(RootFs, Cwd :> DirNode), a), t) :
     a \in AbsoluteFs,
     t \in Trees(Cwd \o <<"p">>, InitNames, InitContents, d, k)}

Undefined == "undefined"
Bool(b) == IF b THEN "true" ELSE "false"

InitInit ==
  /\ fs \in InitFs(MaxDepth, MaxEntries)
  /\ fs0 = fs
  /\ pc = "projectName"
  /\ err = "none"
  /\ stack = <<>>
  /\ log = <<>>
  /\ args \in [argv0 : {Undefined, "p", "/p"},
               force : {Undefined, "true", "false"},
               isFeatureFlagsUsed : BOOLEAN,
               pnpm : BOOLEAN,
               ret : {"scaffold"}]
  /\ res = [targetDir |-> args.argv0,
            projectName |-> Undefined,
            shouldOverwrite |-> Undefined,
            packageName |-> Undefined,
            needsVue |-> Undefined,
            exit |-> Undefined]

defaultProjectName == IF args.argv0 = Undefined THEN "compo-kit-project" ELSE args.argv0

\* the catch around prompts, and onCancel: the message is logged and the
\* process exits with 1
Cancelled ==
  /\ pc' = "exited"
  /\ res' = [res EXCEPT !.exit = "1"]
  /\ UNCHANGED <<fs, fs0, err, stack, log, args>>

\* prompt `projectName`: asked unless the target came with the arguments
PromptProjectName ==
  /\ pc = "projectName"
  /\ \/ /\ args.argv0 # Undefined
        /\ pc' = "shouldOverwrite"
        /\ UNCHANGED <<fs, fs0, err, stack, log, args, res>>
     \/ /\ args.argv0 = Undefined
        /\ \E value \in TargetStrings :
             /\ res' = [res EXCEPT !.targetDir = value, !.projectName = value]
             /\ pc' = "shouldOverwrite"
        /\ UNCHANGED <<fs, fs0, err, stack, log, args>>
     \/ /\ args.argv0 = Undefined
        /\ Cancelled

needsConfirm(f, targetDir, force) ==
  LET r == canSkipEmptying(f, Resolve(targetDir)) IN
  [err |-> r.err, ask |-> ~(r.val \/ force = "true")]

\* prompt `shouldOverwrite`: a confirm, unless canSkipEmptying(targetDir) or --force
PromptShouldOverwrite ==
  /\ pc = "shouldOverwrite"
  /\ LET q == needsConfirm(fs, res.targetDir, args.force) IN
     \/ /\ q.err # "none"
        /\ Cancelled
     \/ /\ q.err = "none" /\ ~q.ask
        /\ pc' = "overwriteChecker"
        /\ UNCHANGED <<fs, fs0, err, stack, log, args, res>>
     \/ /\ q.err = "none" /\ q.ask
        /\ \E answer \in BOOLEAN :
             /\ res' = [res EXCEPT !.shouldOverwrite = Bool(answer)]
             /\ pc' = "overwriteChecker"
        /\ UNCHANGED <<fs, fs0, err, stack, log, args>>
     \/ /\ q.err = "none" /\ q.ask
        /\ Cancelled

\* prompt `overwriteChecker`: throws when the confirm was answered no
OverwriteChecker ==
  /\ pc = "overwriteChecker"
  /\ \/ /\ res.shouldOverwrite = "false"
        /\ Cancelled
     \/ /\ res.shouldOverwrite # "false"
        /\ pc' = "packageName"
        /\ UNCHANGED <<fs, fs0, err, stack, log, args, res>>

\* prompt `packageName`: asked when the target is no valid package name
PromptPackageName ==
  /\ pc = "packageName"
  /\ \/ /\ isValidPackageName(res.targetDir)
        /\ pc' = "needsVue"
        /\ UNCHANGED <<fs, fs0, err, stack, log, args, res>>
     \/ /\ ~isValidPackageName(res.targetDir)
        /\ \E name \in {toValidPackageName(res.targetDir), "my-pkg"} :
             /\ isValidPackageName(name)
             /\ res' = [res EXCEPT !.packageName = name]
             /\ pc' = "needsVue"
        /\ UNCHANGED <<fs, fs0, err, stack, log, args>>
     \/ /\ ~isValidPackageName(res.targetDir)
        /\ Cancelled

\* prompt `needsVue`: asked unless a feature flag was given
PromptNeedsVue ==
  /\ pc = "needsVue"
  /\ \/ /\ args.isFeatureFlagsUsed
        /\ pc' = "prepare"
        /\ UNCHANGED <<fs, fs0, err, stack, log, args, res>>
     \/ /\ ~args.isFeatureFlagsUsed
        /\ \E choice \in {"false", "Vue"} :
             /\ res' = [res EXCEPT !.needsVue = choice]
             /\ pc' = "prepare"
        /\ UNCHANGED <<fs, fs0, err, stack, log, args>>
     \/ /\ ~args.isFeatureFlagsUsed
        /\ Cancelled

\* the defaults of the destructuring
packageName ==
  IF res.packageName # Undefined THEN res.packageName
  ELSE IF res.projectName # Undefined THEN res.projectName ELSE defaultProjectName
shouldOverwrite ==
  IF res.shouldOverwrite # Undefined THEN res.shouldOverwrite = "true" ELSE args.force = "true"
root == pathJoin(Cwd, res.targetDir)

\* the target is emptied, or created, or left as it is
PrepareRoot ==
  /\ pc = "prepare"
  /\ \/ /\ existsSync(fs, root) /\ shouldOverwrite
        /\ LET r == emptyDir(fs, root) IN
             /\ pc' = IF r.pc = "return" THEN args.ret ELSE r.pc
             /\ err' = r.err
             /\ stack' = r.stack
        /\ log' = Append(log, LogOp("emptyDir", fs, root))
        /\ UNCHANGED <<fs, fs0, args, res>>
     \/ /\ ~(existsSync(fs, root) /\ shouldOverwrite)
        /\ ~existsSync(fs, root)
        /\ LET r == mkdirSync(fs, root) IN
             /\ fs' = r.fs
             /\ err' = r.err
             /\ pc' = IF r.err = "none" THEN "scaffold" ELSE "threw"
        /\ log' = IF mkdirSync(fs, root).err = "none" THEN Append(log, LogOp("mkdir", fs, root)) ELSE log
        /\ UNCHANGED <<fs0, stack, args, res>>
     \/ /\ existsSync(fs, root) /\ ~shouldOverwrite
        /\ pc' = "scaffold"
        /\ UNCHANGED <<fs, fs0, err, stack, log, args, res>>

\* the initial package.json is written
WriteManifest ==
  /\ pc = "scaffold"
  /\ LET r == writeFileSync(fs, resolve(root, "package.json"), Stringify(packageName)) IN
       /\ fs' = r.fs
       /\ err' = r.err
       /\ pc' = IF r.err = "none" THEN "instructions" ELSE "threw"
       /\ log' = IF r.err = "none"
                 THEN Append(log, LogOp("writeManifest", fs, resolve(root, "package.json")))
                 ELSE log
  /\ UNCHANGED <<fs0, stack, args, res>>

\* `render` is defined and never called ("todo: render"); the instructions
\* are printed, for pnpm only
Instructions ==
  /\ pc = "instructions"
  /\ \/ /\ ~args.pnpm
        /\ pc' = "exited"
        /\ res' = [res EXCEPT !.exit = "1"]
     \/ /\ args.pnpm
        /\ pc' = "done"
        /\ UNCHANGED res
  /\ UNCHANGED <<fs, fs0, err, stack, log, args>>

NextInit ==
  \/ PromptProjectName
  \/ PromptShouldOverwrite
  \/ OverwriteChecker
  \/ PromptPackageName
  \/ PromptNeedsVue
  \/ PrepareRoot
  \/ WalkEnter
  \/ WalkFile
  \/ WalkLeave
  \/ WalkReturn
  \/ WriteManifest
  \/ Instructions

SpecInit == InitInit /\ [][NextInit]_vars

----------------------------------------------------------------------------
(* Claims about the directory reconciler. *)

Below(f, p) == {q \in DOMAIN f : IsProperPrefix(p, q)}

\* C5: canSkipEmptying reports that no confirmation is required if and only
\* if the path does not exist, or is a directory with zero entries, or is a
\* directory whose only entry is named .git; and the check leaves the file
\* system as it was.
C5_SkipIffMissingEmptyOrGitOnly ==
  pc = "done" =>
    /\ (res.err = "none" /\ res.val = TRUE) <=>
         \/ args.dir \notin DOMAIN fs0
         \/ /\ IsDir(fs0, args.dir)
            /\ \A q \in DOMAIN fs0 : Parent(q) = args.dir /\ q # args.dir => q = Append(args.dir, ".git")
    /\ fs = fs0

C5_Witness ==
  /\ pc = "done"
  /\ res = Returned(TRUE)
  /\ IsDir(fs0, args.dir)
  /\ Append(args.dir, ".git") \in DOMAIN fs0

\* C7: after emptyDir(path) returns, a listing of path is empty, however
\* deeply its subdirectories nested; and when path does not exist emptyDir
\* returns without an error and without changing the file system.
C7_EmptyDirEmpties ==
  /\ pc = "done" =>
       IF existsSync(fs0, args.dir)
       THEN Below(fs, args.dir) = {}
       ELSE fs = fs0
  /\ ~existsSync(fs0, args.dir) => pc # "threw" /\ err = "none"

C7_Witness ==
  /\ pc = "done"
  /\ \E q \in Below(fs0, args.dir) : Len(q) = Len(args.dir) + 2
  /\ \E q \in Below(fs0, args.dir) : IsFile(fs0, q)
  /\ IsDir(fs, args.dir)
  /\ Entries(fs, args.dir) = {}

\* C9: during emptyDir, rmdir is invoked on a directory only after every
\* descendant of it has been removed: never on a directory that still holds
\* an entry, whatever the tree and the order its entries are visited in.
C9_RmdirAfterDescendants ==
  \A i \in DOMAIN log : log[i].op = "rmdir" => log[i].below = {}

C9_Witness ==
  /\ pc = "done"
  /\ \E i \in DOMAIN log :
       /\ log[i].op = "rmdir"
       /\ Cardinality(Below(fs0, log[i].path)) >= 2
       /\ log[i].path \notin DOMAIN fs

----------------------------------------------------------------------------
(* Claims about the template renderer. *)

\* the dotfile rename of the doc comment: `_filename` becomes `.filename`
\* ("_a" is the one name of TemplateNames with a leading underscore)
DotName(name) == IF name = "_a" THEN ".a" ELSE name

Rel(s) == SubSeq(s, Len(args.src) + 1, Len(s))
\* s is, or lies below, a source directory named node_modules
InNodeModules(s) ==
  \E n \in Len(args.src)..Len(s) :
    n >= 1 /\ s[n] = "node_modules" /\ IsDir(fs0, SubSeq(s, 1, n))
\* the source files render has to copy
SrcFiles ==
  {s \in DOMAIN fs0 : IsProperPrefix(args.src, s) /\ IsFile(fs0, s) /\ ~InNodeModules(s)}
DestDir(s) == args.dest \o Rel(Parent(s))
DestPath(s) == Append(DestDir(s), DotName(basename(s)))
IsManifest(s) == DotName(basename(s)) = "package.json"

HasKey(doc, kp) == \E q \in DOMAIN doc : IsPrefix(kp, q)
KeyPaths(doc) == UNION {Ancestors(q) \ {<<>>} : q \in DOMAIN doc}
\* the recursive field merge: a template leaf is inserted unless the
\* destination already holds a value on its key path
Merge(dest, tpl) ==
  LET added == {kp \in DOMAIN tpl : \A q \in DOMAIN dest : ~IsPrefix(q, kp) /\ ~IsPrefix(kp, q)}
  IN [kp \in DOMAIN dest \cup added |-> IF kp \in DOMAIN dest THEN dest[kp] ELSE tpl[kp]]

\* the source manifests that meet a manifest already in the destination
MergedManifests ==
  {s \in SrcFiles : /\ IsManifest(s)
                    /\ fs0[s].data.kind = "json"
                    /\ IsFile(fs0, DestPath(s))
                    /\ fs0[DestPath(s)].data.kind = "json"}

\* C1: after render(T, D) completes, every file of T that is not under a
\* node_modules directory and is not the manifest exists in D at its
\* transformed path with the source file's content.
C1_FilesCopied ==
  pc = "done" =>
    \A s \in SrcFiles :
      ~IsManifest(s) => IsFile(fs, DestPath(s)) /\ fs[DestPath(s)].data = fs0[s].data

\* C2: when render reaches a source package.json and a package.json already
\* exists at the destination path, the destination package.json afterwards
\* is the recursive field merge of the two documents.
C2_ManifestMerged ==
  pc = "done" =>
    \A s \in MergedManifests :
      /\ IsFile(fs, DestPath(s))
      /\ fs[DestPath(s)].data = Json(Merge(fs0[DestPath(s)].data.doc, fs0[s].data.doc))

\* C3: after render has processed the manifest, every key, at any depth,
\* that only the destination document had is still in the destination
\* package.json with its value unchanged.
C3_DestOnlyKeysKept ==
  pc = "done" =>
    \A s \in MergedManifests :
      LET before == fs0[DestPath(s)].data.doc
          tpl == fs0[s].data.doc IN
      \A kp \in KeyPaths(before) :
        ~HasKey(tpl, kp) =>
          /\ IsFile(fs, DestPath(s))
          /\ fs[DestPath(s)].data.kind = "json"
          /\ LET after == fs[DestPath(s)].data.doc IN
               /\ {q \in DOMAIN after : IsPrefix(kp, q)} = {q \in DOMAIN before : IsPrefix(kp, q)}
               /\ \A q \in DOMAIN before : IsPrefix(kp, q) => after[q] = before[q]

C3_Witness ==
  /\ pc = "done"
  /\ \E s \in MergedManifests :
       /\ Len(s) > Len(args.src) + 1
       /\ \E kp \in KeyPaths(fs0[DestPath(s)].data.doc) :
            Len(kp) = 2 /\ ~HasKey(fs0[s].data.doc, kp)

\* C4: a source file whose base name begins with '_' yields a destination
\* entry with the '_' replaced by '.', and none under the '_' name; any other
\* source file yields a destination entry of exactly its base name.
C4_DotfileRenamed ==
  pc = "done" =>
    \A s \in SrcFiles :
      /\ IsFile(fs, DestPath(s))
      /\ DotName(basename(s)) # basename(s) =>
           (Append(DestDir(s), basename(s)) \in DOMAIN fs
              => Append(DestDir(s), basename(s)) \in DOMAIN fs0)

\* render creates nothing in the destination for a source node_modules
\* directory or anything below it
C6_NothingFromNodeModules ==
  \A s \in DOMAIN fs0 :
    IsPrefix(args.src, s) /\ InNodeModules(s) =>
      LET d == args.dest \o Rel(s) IN
      d \in DOMAIN fs => d \in DOMAIN fs0 /\ fs[d] = fs0[d]

\* the entries beside a skipped node_modules directory are rendered
C6_SiblingsRendered ==
  pc = "done" =>
    \A s \in DOMAIN fs0 :
      /\ IsProperPrefix(args.src, s)
      /\ IsDir(fs0, s)
      /\ basename(s) = "node_modules"
      /\ ~InNodeModules(Parent(s))
      => \A e \in DOMAIN fs0 :
           Len(e) = Len(s) /\ Parent(e) = Parent(s) /\ e # s =>
             IF IsDir(fs0, e) THEN IsDir(fs, args.dest \o Rel(e)) ELSE IsFile(fs, DestPath(e))

\* C6: render never creates in the destination a directory or file for a
\* source directory named node_modules or for a descendant of one, at any
\* depth, the source root included; and every sibling entry of the skipped
\* directory is still rendered.
C6_NodeModulesSkipped == C6_NothingFromNodeModules /\ C6_SiblingsRendered

----------------------------------------------------------------------------
(* Claims about the orchestration. *)

\* overwriting was authorized: the confirm was answered yes, or --force
Authorized == res.shouldOverwrite = "true" \/ args.force = "true"
\* the directory holds something other than a lone .git
NotReusable(f, dir) == IsDir(f, dir) /\ Entries(f, dir) \notin {{}, {".git"}}

\* C8: if the target directory is not safely reusable and neither the user
\* confirmed overwriting nor --force was given, the target is not mutated:
\* emptyDir is not called, no directory is created, no package.json is
\* written; a declined confirmation ends the process before any write; and
\* emptyDir is called only when the target exists and overwriting was
\* authorized.
C8_NoMutationUnlessAuthorized ==
  /\ res.targetDir # Undefined /\ NotReusable(fs0, root) /\ ~Authorized
       => fs = fs0 /\ log = <<>>
  /\ res.shouldOverwrite = "false"
       => fs = fs0 /\ log = <<>> /\ pc \in {"overwriteChecker", "exited"}
  /\ \A i \in DOMAIN log :
       log[i].op = "emptyDir" => existsSync(fs0, root) /\ Authorized

Ops == {log[i].op : i \in DOMAIN log}

\* C10: in every run that is not cancelled the target is emptied (only if
\* authorized), then the manifest {name: packageName, version: "0.0.0"} is
\* written to package.json in the target, then the renderer is invoked on
\* the target: render is invoked by the end of the run, and never before
\* the manifest has been written.
C10_EmptyThenManifestThenRender ==
  /\ \A i, j \in DOMAIN log :
       /\ log[i].op = "emptyDir" /\ log[j].op = "writeManifest" => i < j
       /\ log[i].op = "writeManifest" /\ log[j].op = "render" => i < j
  /\ "emptyDir" \in Ops => Authorized
  /\ pc \in {"instructions", "done"} =>
       /\ IsFile(fs, resolve(root, "package.json"))
       /\ fs[resolve(root, "package.json")].data = Stringify(packageName)
  /\ pc = "done" => "render" \in Ops

====
